---- MODULE Spec2Model ----
(***************************************************************************)
(* Polo (src/Polo.py): the media session of the hologram projector and its *)
(* video frame pipeline.                                                   *)
(*                                                                         *)
(* Three threads are modelled:                                             *)
(*   - the GUI thread, which runs the slots of class Polo one at a time    *)
(*     (choose_media, advance_media, size_changed, the autosize toggle,    *)
(*     clear_media, closeEvent) and blocks inside stop();                  *)
(*   - the player thread, running Polo.play (the consumer);                *)
(*   - the producer thread, running play's nested process_frames.          *)
(* A slot is one action, except where it blocks: stop() is cut at its      *)
(* close() call and at its join().  The two pipeline threads are cut at    *)
(* every read of the shared attribute self.media and at every queue call.  *)
(***************************************************************************)
EXTENDS Integers, Sequences, FiniteSets, TLC

(***************************************************************************)
(* Bounds of the model.                                                    *)
(***************************************************************************)
\* a playback never ends by itself; in the model a producer thread decodes
\* at most this many frames
MaxFrames == 4
\* advance_media is called with the steps of the buttons, -1 and 1, and with
\* the longer steps -MaxStep and MaxStep
MaxStep == 6
\* on an empty file list advance_media moves the index without wrapping it;
\* the model lets it move within -MaxIndex..MaxIndex
MaxIndex == 1
\* capacity of play's frame_buffer; the program's queue.Queue(10) is scaled
\* down, a full buffer behaving alike at every capacity
QueueCap == 2
\* the count of consecutive published pairs without a preview stops here
MaxRun == 4

(***************************************************************************)
(* Program constants.                                                      *)
(***************************************************************************)
\* the diagonal the constructor sets
DefaultScreenSize == 32

\* Supported media formats
image_fmts == {"bmp", "gif", "jpeg", "jpg", "png", "ppm"}
video_fmts == {"avi", "mkv", "mov", "mp4", "mpg", "mpeg"}

(***************************************************************************)
(* The files of the model.  img.png and pic.jpg are readable images;       *)
(* vidA.mp4 and vidB.avi are readable videos; bad.png and bad.mp4 carry a  *)
(* supported extension but cannot be opened (Image.open, get_reader raise).*)
(***************************************************************************)
get_fmt(path) ==
    CASE path = "img.png" -> "png"
      [] path = "pic.jpg" -> "jpg"
      [] path = "bad.png" -> "png"
      [] path = "vidA.mp4" -> "mp4"
      [] path = "vidB.avi" -> "avi"
      [] path = "bad.mp4" -> "mp4"
      [] OTHER -> ""

Openable(path) == path \in {"img.png", "pic.jpg", "vidA.mp4", "vidB.avi"}

\* len(reader), the number of frames get_data really decodes, and the frame
\* rate of each video: vidB.avi reports one frame more than it can decode
ReportedLen(path) == IF path = "vidA.mp4" THEN 3 ELSE 4
RealLen(path) == 3
Fps(path) == IF path = "vidA.mp4" THEN 3 ELSE 2

\* The directories the file dialog is pointed at, as glob, the format
\* filter and sort(key=str.lower) leave them: one of files that open, one
\* with files that do not, and one where nothing is listed.
Dirs == { <<"img.png", "vidA.mp4", "vidB.avi">> }
LoadDirs == { << >>, <<"bad.mp4", "bad.png", "img.png", "pic.jpg", "vidA.mp4">> }
\* and, for the sizing widgets, a still and a video to draw
SizeDirs == { <<"img.png", "vidA.mp4">> }

\* diagonals the user can type into the size line edit
Sizes == {46}

\* what the dialog can return from directory dir: the position of a listed
\* file, or (-1) a file the filter of line 228 leaves out, which the model
\* has only in the directory where nothing is listed
Selections(dir) == IF dir = << >> THEN {-1} ELSE 0 .. (Len(dir) - 1)

\* the steps advance_media is called with
Steps == {-MaxStep, -1, 1, MaxStep}

VARIABLES
    files,                  \* Polo.files
    current_file_index,     \* Polo.current_file_index (0-based, -1 at start)
    media,                  \* Polo.media
    output_screen_size,     \* Polo.output_screen_size
    size_checked,           \* size_checkbox.isChecked()
    size_checkbox_enabled,  \* size_checkbox / dimensions_shortcut enabled
    nav_enabled,            \* nav_widget / next_shortcut / previous_shortcut enabled
    display,                \* pixmap of display_widget
    preview,                \* pixmap of media_preview_stack.widget(1)
    preview_index,          \* media_preview_stack.currentIndex()
    main_pc,                \* where the GUI thread is
    main_cont,              \* the slot that called stop()
    video,                  \* stop()'s local: the handle it closes
    closed,                 \* handles on which close() has been called
    c_pc,                   \* player thread (play): position
    c_fps,                  \* play's local fps
    queue,                  \* play's local frame_buffer
    p_pc,                   \* producer thread (process_frames): position
    p_i,                    \* process_frames' local i
    p_n,                    \* frames this producer thread has decoded
    p_h,                    \* the reader whose get_data the producer has bound
    p_idx,                  \* the evaluated argument i % len(self.media)
    p_tuple,                \* process_frames' local frame_tuple
    lastError,              \* the exception the last slot ended with
    advanced,               \* the step, when the last step was advance_media; else 0
    lastShown,              \* frame index of the pair published last, this playback
    sincePreview,           \* pairs published since the last one with a preview
    previewed,              \* a pair with a preview was published, this playback
    pushed,                 \* pairs put into frame_buffer, this playback
    shown,                  \* pairs the consumer has published, this playback
    holo                    \* a call of hologrify: what it reads and what it computes

vars == << files, current_file_index, media, output_screen_size, size_checked,
           size_checkbox_enabled, nav_enabled, display, preview, preview_index,
           main_pc, main_cont, video, closed,
           c_pc, c_fps, queue, p_pc, p_i, p_n, p_h, p_idx, p_tuple,
           lastError, advanced, lastShown, sincePreview, previewed, pushed, shown,
           holo >>

sessionVars == << files, current_file_index, media, output_screen_size,
                  size_checked, size_checkbox_enabled, nav_enabled >>
surfaceVars == << display, preview, preview_index >>
mainVars == << main_pc, main_cont, video >>
consumerVars == << c_pc, c_fps >>
producerVars == << p_pc, p_i, p_n, p_h, p_idx, p_tuple >>

(***************************************************************************)
(* Values.                                                                 *)
(***************************************************************************)
NoMedia == [type |-> "None", file |-> "", h |-> 0]
ImageMedia(f) == [type |-> "Image", file |-> f, h |-> 0]
VideoMedia(f, h) == [type |-> "Video", file |-> f, h |-> h]

\* the sizing parameters hologrify reads: autosize, or the manual diagonal
SizingOf(checked, inches) ==
    [auto |-> checked, inches |-> IF checked THEN 0 ELSE inches]
Sizing == SizingOf(size_checked, output_screen_size)
NoSizing == [auto |-> TRUE, inches |-> 0]

\* pixmaps: nothing, a still, or a frame of a video; sz is the sizing the
\* hologram was composed with (the preview is never hologrified)
Blank == [kind |-> "blank", file |-> "", sz |-> NoSizing]
StillOf(path, sz) == [kind |-> "image", file |-> path, sz |-> sz]
RawStill(path) == [kind |-> "image", file |-> path, sz |-> NoSizing]

\* frame_tuple: the hologrified frame and, when pv, its thumbnail; seq is
\* the number of the put that queued it (0 before it is put)
NoTuple == [file |-> "", idx |-> 0, pv |-> FALSE, sz |-> NoSizing, seq |-> 0]
FrameOf(t) == [kind |-> "frame", file |-> t.file, sz |-> t.sz]
ThumbOf(t) == [kind |-> "frame", file |-> t.file, sz |-> NoSizing]

consAlive == c_pc # "dead"
prodAlive == p_pc # "dead"

\* what a call of hologrify reads: the sizing mode, the size of the display
\* widget in pixels, its physical resolution and height (autosize), the
\* diagonal typed by the user (manual); and what it computes
NoInput == [auto |-> TRUE, W |-> 0, H |-> 0, dpi |-> 0, heightMM |-> 0, inches |-> 0]
NoLayout == [media_length_px |-> 0, center_length_px |-> 0,
             top |-> [width |-> 0, height |-> 0],
             top_x |-> 0, top_y |-> 0, bottom_x |-> 0, bottom_y |-> 0,
             left |-> [width |-> 0, height |-> 0],
             left_x |-> 0, left_y |-> 0,
             right |-> [width |-> 0, height |-> 0],
             right_x |-> 0, right_y |-> 0]

\* no call of hologrify is followed
NoHolo == [done |-> FALSE, in |-> NoInput, out |-> NoLayout]

\* the session as the constructor leaves it
InitSession ==
    /\ files = << >>
    /\ current_file_index = -1
    /\ media = NoMedia
    /\ output_screen_size = DefaultScreenSize
    /\ size_checked = TRUE
    /\ size_checkbox_enabled = FALSE
    /\ nav_enabled = FALSE
    /\ display = Blank
    /\ preview = Blank
    /\ preview_index = 0
    /\ main_pc = "idle"
    /\ main_cont = "none"
    /\ video = 0
    /\ closed = {}
    /\ c_pc = "dead"
    /\ c_fps = 0
    /\ queue = << >>
    /\ p_pc = "dead"
    /\ p_i = 0
    /\ p_n = 0
    /\ p_h = NoMedia
    /\ p_idx = 0
    /\ p_tuple = NoTuple
    /\ lastError = "none"
    /\ advanced = 0
    /\ lastShown = -1
    /\ sincePreview = 0
    /\ previewed = FALSE
    /\ pushed = 0
    /\ shown = 0

Init ==
    /\ InitSession
    /\ holo = NoHolo

(***************************************************************************)
(* The GUI thread.                                                         *)
(***************************************************************************)
\* what no slot of the GUI thread changes
pipelineVars == << c_fps, queue, p_pc, p_i, p_n, p_h, p_idx, p_tuple,
                   lastShown, sincePreview, previewed, pushed, shown, holo >>

\* a refresh that starts a player thread for a video whether or not one is
\* alive, which is not what line 287 does
refresh_always_starts(m, sz) ==
    /\ preview_index' = 1
    /\ IF m.type = "Image"
         THEN /\ display' = StillOf(m.file, sz)
              /\ preview' = RawStill(m.file)
              /\ c_pc' = c_pc
         ELSE /\ UNCHANGED << display, preview >>
              /\ c_pc' = IF m.type = "Video" THEN "c_start" ELSE c_pc

\* Polo.refresh, for the media m and the sizing sz it finds
refresh(m, sz) ==
    /\ preview_index' = 1
    /\ IF m.type = "Image"
         THEN /\ display' = StillOf(m.file, sz)
              /\ preview' = RawStill(m.file)
              /\ c_pc' = c_pc
         ELSE /\ UNCHANGED << display, preview >>
              /\ c_pc' = IF m.type = "Video" /\ ~consAlive THEN "c_start" ELSE c_pc

\* a slot ends with an uncaught exception: nothing after the raise runs
Raise(err) ==
    /\ lastError' = err
    /\ main_pc' = "idle"
    /\ main_cont' = "none"

\* a slot runs to its end
Return ==
    /\ lastError' = "none"
    /\ main_pc' = "idle"
    /\ main_cont' = "none"

\* Polo.stop up to its close() call: video = self.media; self.media = None
stop_begin(cont) ==
    /\ video' = media.h
    /\ media' = NoMedia
    /\ main_pc' = "stop_close"
    /\ main_cont' = cont
    /\ lastError' = "none"

\* The reader get_reader returns is a new object.  Readers are told apart
\* by a number; the only reader that can still be referenced when a new one
\* is made is the one the producer has bound, so two numbers are enough.
NewReader == IF p_h.h = 1 THEN 2 ELSE 1

\* set_media, video branch from get_reader on (lines 252-260)
open_video(path) ==
    IF Openable(path)
      THEN /\ media' = VideoMedia(path, NewReader)
           /\ closed' = IF prodAlive THEN closed \ {NewReader} ELSE {}
           /\ size_checkbox_enabled' = TRUE
           /\ nav_enabled' = TRUE
           /\ refresh(media', Sizing)
           /\ Return
      ELSE /\ Raise("IOError")
           /\ closed' = IF prodAlive THEN closed ELSE {}
           /\ UNCHANGED << media, size_checkbox_enabled, nav_enabled,
                           display, preview, preview_index, c_pc >>

\* files[index], as a Python list is indexed: from the end when negative
InRange(fs, index) == index \in -Len(fs) .. (Len(fs) - 1)
FileAt(fs, index) == IF index < 0 THEN fs[Len(fs) + index + 1] ELSE fs[index + 1]

\* Polo.set_media, with the file list fs and the current index the slot has
\* just set
set_media(fs, index) ==
    IF ~InRange(fs, index)
      THEN /\ Raise("IndexError")
           /\ UNCHANGED << media, video, closed, size_checkbox_enabled,
                           nav_enabled, display, preview, preview_index, c_pc >>
      ELSE LET media_path == FileAt(fs, index)
               fmt == get_fmt(media_path)
           IN  CASE fmt \in image_fmts ->
                      IF Openable(media_path)
                        THEN /\ media' = ImageMedia(media_path)
                             /\ size_checkbox_enabled' = TRUE
                             /\ nav_enabled' = TRUE
                             /\ refresh(media', Sizing)
                             /\ Return
                             /\ UNCHANGED << video, closed >>
                        ELSE /\ Raise("IOError")
                             /\ UNCHANGED << media, video, closed,
                                             size_checkbox_enabled, nav_enabled,
                                             display, preview, preview_index, c_pc >>
                 [] fmt \in video_fmts ->
                      IF media.type = "Video"
                        THEN /\ stop_begin("set_media")
                             /\ UNCHANGED << closed, size_checkbox_enabled,
                                             nav_enabled, display, preview,
                                             preview_index, c_pc >>
                        ELSE /\ open_video(media_path)
                             /\ UNCHANGED video
                 [] OTHER ->
                      /\ size_checkbox_enabled' = TRUE
                      /\ nav_enabled' = TRUE
                      /\ refresh(media, Sizing)
                      /\ Return
                      /\ UNCHANGED << media, video, closed >>

\* Polo.choose_media: the dialog returns a file of directory dir; sel is its
\* position in the filtered listing, or -1 when the filter of line 228 left
\* it out (files.index raises ValueError)
choose_media(dir, sel) ==
    /\ main_pc = "idle"
    /\ files' = dir
    /\ IF sel = -1
         THEN /\ Raise("ValueError")
              /\ UNCHANGED << current_file_index, media, video, closed,
                              size_checkbox_enabled, nav_enabled,
                              display, preview, preview_index, c_pc >>
         ELSE /\ current_file_index' = sel
              /\ set_media(dir, sel)
    /\ advanced' = 0
    /\ UNCHANGED << output_screen_size, size_checked, pipelineVars >>

\* the remainder truncated toward zero (the sign of the dividend), which is
\* not what lines 274-275 compute
truncated_index(index, step, n) ==
    IF index + step >= 0
      THEN (index + step) % n
      ELSE 0 - ((0 - (index + step)) % n)

\* lines 274-275: self.current_file_index += step, then %= len(self.files)
\* (Python's %: the result has the sign of the divisor)
advance_index(index, step, n) == (index + step) % n

\* Polo.advance_media; the buttons and shortcuts that call it are enabled
\* together with nav_widget
advance_media(step) ==
    /\ main_pc = "idle"
    /\ nav_enabled
    /\ IF Len(files) = 0
         THEN /\ current_file_index + step \in -MaxIndex .. MaxIndex
              /\ current_file_index' = current_file_index + step
              /\ Raise("ZeroDivisionError")
              /\ UNCHANGED << media, video, closed, size_checkbox_enabled,
                              nav_enabled, display, preview, preview_index, c_pc >>
         ELSE /\ current_file_index' =
                     advance_index(current_file_index, step, Len(files))
              /\ set_media(files, current_file_index')
    /\ advanced' = step
    /\ UNCHANGED << files, output_screen_size, size_checked, pipelineVars >>

\* Polo.size_changed: the line edit lives in size_widget, which is visible
\* exactly while autosize is unticked
size_changed(inches) ==
    /\ main_pc = "idle"
    /\ ~size_checked
    /\ output_screen_size' = inches
    /\ refresh(media, SizingOf(size_checked, inches))
    /\ Return
    /\ advanced' = 0
    /\ UNCHANGED << files, current_file_index, media, size_checked,
                    size_checkbox_enabled, nav_enabled, video, closed,
                    pipelineVars >>

\* the autosize checkbox (or its shortcut) is toggled:
\* Polo.set_dimensions_visibility
set_dimensions_visibility ==
    /\ main_pc = "idle"
    /\ size_checkbox_enabled
    /\ size_checked' = ~size_checked
    /\ refresh(media, SizingOf(~size_checked, output_screen_size))
    /\ Return
    /\ advanced' = 0
    /\ UNCHANGED << files, current_file_index, media, output_screen_size,
                    size_checkbox_enabled, nav_enabled, video, closed,
                    pipelineVars >>

\* clear_media after its call of stop (lines 443-450)
clear_rest ==
    /\ display' = Blank
    /\ preview_index' = 0
    /\ nav_enabled' = FALSE
    /\ size_checkbox_enabled' = FALSE
    /\ Return
    /\ UNCHANGED preview

\* Polo.clear_media
clear_media ==
    /\ main_pc = "idle"
    /\ IF media.type = "Video"
         THEN /\ stop_begin("clear_media")
              /\ UNCHANGED << display, preview, preview_index, nav_enabled,
                              size_checkbox_enabled >>
         ELSE /\ clear_rest
              /\ UNCHANGED << media, video >>
    /\ advanced' = 0
    /\ UNCHANGED << files, current_file_index, output_screen_size, size_checked,
                    closed, c_pc, pipelineVars >>

\* Polo.closeEvent: the window is closed and no slot runs afterwards
closeEvent ==
    /\ main_pc = "idle"
    /\ IF media.type = "Video"
         THEN stop_begin("closeEvent")
         ELSE /\ main_pc' = "closed"
              /\ main_cont' = "none"
              /\ lastError' = "none"
              /\ UNCHANGED << media, video >>
    /\ advanced' = 0
    /\ UNCHANGED << files, current_file_index, output_screen_size, size_checked,
                    size_checkbox_enabled, nav_enabled, surfaceVars,
                    closed, c_pc, pipelineVars >>

\* Polo.stop: video.close()
stop_close ==
    /\ main_pc = "stop_close"
    /\ closed' = closed \cup {video}
    /\ main_pc' = "stop_join"
    /\ advanced' = 0
    /\ UNCHANGED << sessionVars, surfaceVars, main_cont, video,
                    c_pc, pipelineVars, lastError >>

\* a join that returns without waiting for the thread, which is not what
\* Thread.join does
joined_at_once == TRUE

\* line 354: self.player_thread.join() returns once the player thread has
\* ended (play has returned or raised)
player_joined == ~consAlive

\* Polo.stop: self.player_thread.join() returns, and the slot that called
\* stop runs to its end.  No thread is left to reference a reader, and the
\* closed ones are forgotten.
stop_join ==
    /\ main_pc = "stop_join"
    /\ player_joined
    /\ video' = 0
    /\ CASE main_cont = "set_media" ->
              /\ open_video(FileAt(files, current_file_index))
              /\ UNCHANGED << files, current_file_index, output_screen_size,
                              size_checked >>
         [] main_cont = "clear_media" ->
              /\ clear_rest
              /\ closed' = {}
              /\ UNCHANGED << files, current_file_index, media, output_screen_size,
                              size_checked, c_pc >>
         [] main_cont = "closeEvent" ->
              /\ main_pc' = "closed"
              /\ main_cont' = "none"
              /\ lastError' = "none"
              /\ closed' = {}
              /\ UNCHANGED << sessionVars, surfaceVars, c_pc >>
    /\ advanced' = 0
    /\ UNCHANGED pipelineVars

(***************************************************************************)
(* The player thread: Polo.play.                                           *)
(***************************************************************************)
\* what neither thread of the pipeline changes
mainUntouched == << sessionVars, mainVars, closed, lastError, holo >>

\* lines 297-330: fps from the metadata of self.media, a fresh frame_buffer,
\* and the producer thread is started (its first statement is i = 0); when
\* self.media is no video any more, get_meta_data raises and the thread ends
play_start ==
    /\ c_pc = "c_start"
    /\ IF media.type = "Video"
         THEN /\ c_fps' = Fps(media.file)
              /\ queue' = << >>
              /\ lastShown' = -1
              /\ sincePreview' = 0
              /\ previewed' = FALSE
              /\ pushed' = 0
              /\ shown' = 0
              /\ p_pc' = "p_check"
              /\ p_i' = 0
              /\ p_n' = 0
              /\ c_pc' = "c_check"
         ELSE /\ c_pc' = "dead"
              /\ UNCHANGED << c_fps, queue, lastShown, sincePreview, previewed, pushed, shown, p_pc, p_i, p_n >>
    /\ advanced' = 0
    /\ UNCHANGED << mainUntouched, surfaceVars, p_h, p_idx, p_tuple >>

\* line 332: while type(self.media) is Video
play_check ==
    /\ c_pc = "c_check"
    /\ c_pc' = IF media.type = "Video" THEN "c_get" ELSE "c_join"
    /\ advanced' = 0
    /\ UNCHANGED << mainUntouched, surfaceVars, c_fps, queue, producerVars,
                    lastShown, sincePreview, previewed, pushed, shown >>

\* lines 334-343: frame_buffer.get() blocks while the buffer is empty; the
\* pair it returns is published, and the thread sleeps 1 / fps
play_show ==
    /\ c_pc = "c_get"
    /\ queue # << >>
    /\ LET frame_tuple == Head(queue)
       IN  /\ display' = FrameOf(frame_tuple)
           /\ preview' = IF frame_tuple.pv THEN ThumbOf(frame_tuple) ELSE preview
           /\ lastShown' = frame_tuple.idx
           /\ sincePreview' = IF frame_tuple.pv THEN 0
                              ELSE IF sincePreview < MaxRun THEN sincePreview + 1
                              ELSE sincePreview
           /\ previewed' = (previewed \/ frame_tuple.pv)
    /\ shown' = shown + 1
    /\ queue' = Tail(queue)
    /\ c_pc' = "c_check"
    /\ advanced' = 0
    /\ UNCHANGED << mainUntouched, preview_index, c_fps, producerVars, pushed >>

\* line 345: frame_producer.join(), then the thread ends
play_join ==
    /\ c_pc = "c_join"
    /\ ~prodAlive
    /\ c_pc' = "dead"
    /\ c_fps' = 0
    /\ queue' = << >>
    /\ lastShown' = -1
    /\ sincePreview' = 0
    /\ previewed' = FALSE
    /\ pushed' = 0
    /\ shown' = 0
    /\ advanced' = 0
    /\ UNCHANGED << mainUntouched, surfaceVars, producerVars >>

(***************************************************************************)
(* The producer thread: process_frames.                                    *)
(***************************************************************************)
\* the thread ends: its loop is over, or an exception it does not catch
producer_ends ==
    /\ p_pc' = "dead"
    /\ p_i' = 0
    /\ p_n' = 0
    /\ p_h' = NoMedia
    /\ p_idx' = 0
    /\ p_tuple' = NoTuple

\* a decode failure that ends the thread, which is not what lines 308-310 do
decode_failed_fatal == producer_ends

\* lines 308-310: except RuntimeError: i = 0; continue
decode_failed ==
    /\ p_i' = 0
    /\ p_pc' = "p_check"
    /\ UNCHANGED << p_n, p_h, p_idx, p_tuple >>

\* line 303: while type(self.media) is Video
process_check ==
    /\ p_pc = "p_check"
    /\ IF media.type = "Video"
         THEN /\ p_n < MaxFrames
              /\ p_pc' = "p_bind"
              /\ UNCHANGED << p_i, p_n, p_h, p_idx, p_tuple >>
         ELSE producer_ends
    /\ advanced' = 0
    /\ UNCHANGED << mainUntouched, surfaceVars, consumerVars, queue, lastShown, sincePreview, previewed, pushed, shown >>

\* line 306, self.media.get_data: the reader is read from self.media a first
\* time (None and an image have no get_data: AttributeError)
process_bind ==
    /\ p_pc = "p_bind"
    /\ IF media.type = "Video"
         THEN /\ p_h' = media
              /\ p_pc' = "p_len"
              /\ UNCHANGED << p_i, p_n, p_idx, p_tuple >>
         ELSE producer_ends
    /\ advanced' = 0
    /\ UNCHANGED << mainUntouched, surfaceVars, consumerVars, queue, lastShown, sincePreview, previewed, pushed, shown >>

\* line 306, i % len(self.media): self.media is read a second time (None and
\* an image have no len: TypeError)
process_len ==
    /\ p_pc = "p_len"
    /\ IF media.type = "Video"
         THEN /\ p_idx' = p_i % ReportedLen(media.file)
              /\ p_pc' = "p_get"
              /\ UNCHANGED << p_i, p_n, p_h, p_tuple >>
         ELSE producer_ends
    /\ advanced' = 0
    /\ UNCHANGED << mainUntouched, surfaceVars, consumerVars, queue, lastShown, sincePreview, previewed, pushed, shown >>

\* lines 306-317: get_data on the bound reader, and the pair is composed with
\* the sizing of this moment.  A frame past the real end raises RuntimeError
\* (i = 0; continue).  A closed reader raises, RuntimeError or another
\* exception depending on where close() caught the call.
process_get ==
    /\ p_pc = "p_get"
    /\ \/ /\ p_h.h \in closed
          /\ \/ decode_failed
             \/ producer_ends
       \/ /\ p_h.h \notin closed
          /\ IF p_idx >= RealLen(p_h.file)
               THEN decode_failed
               ELSE /\ p_i' = p_i + 1
                    /\ p_n' = p_n + 1
                    /\ p_tuple' = [file |-> p_h.file, idx |-> p_idx,
                                   pv |-> (p_i' % c_fps = 0), sz |-> Sizing,
                                   seq |-> 0]
                    /\ p_pc' = "p_put"
                    /\ UNCHANGED << p_h, p_idx >>
    /\ advanced' = 0
    /\ UNCHANGED << mainUntouched, surfaceVars, consumerVars, queue, lastShown, sincePreview, previewed, pushed, shown >>

\* a put at the front of the buffer, which is not what queue.Queue does
process_put_front ==
    /\ p_pc = "p_put"
    /\ Len(queue) < QueueCap
    /\ queue' = << [p_tuple EXCEPT !.seq = pushed + 1] >> \o queue
    /\ pushed' = pushed + 1
    /\ p_tuple' = NoTuple
    /\ p_pc' = "p_check"
    /\ advanced' = 0
    /\ UNCHANGED << mainUntouched, surfaceVars, consumerVars, p_i, p_n, p_h, p_idx,
                    lastShown, sincePreview, previewed, shown >>

\* line 323: frame_buffer.put finds room
process_put ==
    /\ p_pc = "p_put"
    /\ Len(queue) < QueueCap
    /\ queue' = Append(queue, [p_tuple EXCEPT !.seq = pushed + 1])
    /\ pushed' = pushed + 1
    /\ p_tuple' = NoTuple
    /\ p_pc' = "p_check"
    /\ advanced' = 0
    /\ UNCHANGED << mainUntouched, surfaceVars, consumerVars, p_i, p_n, p_h, p_idx,
                    lastShown, sincePreview, previewed, shown >>

\* lines 323-325: the buffer stays full for 2 / fps seconds: queue.Full, and
\* the pair is dropped
process_put_timeout ==
    /\ p_pc = "p_put"
    /\ Len(queue) >= QueueCap
    /\ p_tuple' = NoTuple
    /\ p_pc' = "p_check"
    /\ advanced' = 0
    /\ UNCHANGED << mainUntouched, surfaceVars, consumerVars, queue, p_i, p_n, p_h,
                    p_idx, lastShown, sincePreview, previewed, pushed, shown >>

(***************************************************************************)
(* Polo.hologrify: the layout of the four mirrored images.  The arithmetic *)
(* of lines 358-402 is done in floating point on values that are whole     *)
(* numbers, halves, quarters, or ratios of whole numbers; it is modelled   *)
(* with exact fractions, and int() truncates toward zero.                  *)
(***************************************************************************)
center_length_mm == 100

Abs(a) == IF a >= 0 THEN a ELSE 0 - a

RECURSIVE GCD(_, _)
GCD(a, b) == IF b = 0 THEN a ELSE GCD(b, a % b)

\* the fraction n / d (d > 0), in lowest terms
Frac(n, d) == LET g == GCD(Abs(n), d) IN [num |-> n \div g, den |-> d \div g]

\* int(a / b) for whole a and b > 0: the quotient truncated toward zero
int_div(a, b) == IF a >= 0 THEN a \div b ELSE 0 - ((0 - a) \div b)

\* line 374, (screen_width_px**2 + screen_height_px**2)**0.5, for display
\* sizes whose diagonal is a whole number of pixels
Diagonal(W, H) == CHOOSE d \in 0 .. (W + H) : d * d = W * W + H * H

\* lines 369 and 374: dots per millimeter (25.4 = 127 / 5)
dpmm(in) ==
    IF in.auto
      THEN Frac(5 * in.dpi, 127)
      ELSE Frac(5 * Diagonal(in.W, in.H), 127 * in.inches)

\* lines 371 and 376
screen_height_mm(in) ==
    IF in.auto
      THEN Frac(in.heightMM, 1)
      ELSE Frac(in.H * dpmm(in).den, dpmm(in).num)

\* lines 380 and 383: int(abs(screen_height_mm - center_length_mm) / 2 * dpmm)
media_length_px(in) ==
    LET h == screen_height_mm(in)
        d == dpmm(in)
    IN  int_div(Abs(h.num - center_length_mm * h.den) * d.num, 2 * h.den * d.den)

\* line 384: int(center_length_mm * dpmm)
center_length_px(in) == int_div(center_length_mm * dpmm(in).num, dpmm(in).den)

\* lines 362 and 389: int((SC_H - top.width) / 2), with SC_H the height plus 600
top_x(H, top) == int_div((H + 600) - top.width, 2)

\* line 390: int(((screen_height_px - center_length_px) / 2 - top.height) / 2)
top_y(H, c, top) == int_div((H - c) - 2 * top.height, 4)

\* line 394
bottom_y(H, top, ty) == H - top.height - ty

\* line 396: rotate(90, expand=True) exchanges width and height; the flips
\* and the mirror keep them
rotate90(img) == [width |-> img.height, height |-> img.width]

\* line 397
left_x(ty) == ty + 300

\* line 398
left_y(H, left) == int_div(H - left.height, 2)

\* a right image placed without the offset of 300 pixels, which is not what
\* line 401 computes
right_x_no_offset(H, right, ty) == H - right.width - ty

\* line 401
right_x(H, right, ty) == H - right.width - ty + 300

\* lines 358-402, for the size top that thumbnail leaves the copy with
Layout(in, top) ==
    LET H == in.H
        c == center_length_px(in)
        ty == top_y(H, c, top)
        left == rotate90(top)
    IN  [media_length_px |-> media_length_px(in), center_length_px |-> c,
         top |-> top, top_x |-> top_x(H, top), top_y |-> ty,
         bottom_x |-> top_x(H, top), bottom_y |-> bottom_y(H, top, ty),
         left |-> left, left_x |-> left_x(ty), left_y |-> left_y(H, left),
         right |-> left, right_x |-> right_x(H, left, ty),
         right_y |-> left_y(H, left)]

\* the displays and sizing parameters hologrify is called with
AutoInputs ==
    { [auto |-> TRUE, W |-> 1024, H |-> h, dpi |-> d, heightMM |-> mm,
       inches |-> DefaultScreenSize] :
          h \in {175, 768}, d \in {44, 96}, mm \in {60, 100, 101, 194, 300} }
ManualInputs ==
    { [auto |-> FALSE, W |-> wh[1], H |-> wh[2], dpi |-> 96, heightMM |-> 194,
       inches |-> i] :
          wh \in { <<400, 300>>, <<1024, 768>> },
          i \in {5, 6, 7, DefaultScreenSize} \cup Sizes }
HoloInputs == AutoInputs \cup ManualInputs

\* the sizes Image.thumbnail can leave the copy with
TopSizes ==
    { [width |-> wh[1], height |-> wh[2]] :
          wh \in { <<1, 1>>, <<75, 50>>, <<50, 75>>, <<334, 251>>,
                   <<333, 333>>, <<1400, 700>> } }

otherVars == << sessionVars, surfaceVars, mainVars, closed, lastError, advanced,
                c_pc, c_fps, queue, p_pc, p_i, p_n, p_h, p_idx, p_tuple,
                lastShown, sincePreview, previewed, pushed, shown >>

\* one call of Polo.hologrify, up to the positions of the four images
hologrify(top) ==
    /\ ~holo.done
    /\ holo' = [done |-> TRUE, in |-> holo.in, out |-> Layout(holo.in, top)]
    /\ UNCHANGED otherVars

(***************************************************************************)
(* The specification.                                                      *)
(***************************************************************************)
\* the slots that select and drop media
Slot ==
    \/ \E dir \in Dirs : \E sel \in Selections(dir) : choose_media(dir, sel)
    \/ \E step \in Steps : advance_media(step)
    \/ clear_media

\* the selecting slots, in the directories where loading fails
LoadSlot ==
    \/ \E dir \in LoadDirs : \E sel \in Selections(dir) : choose_media(dir, sel)
    \/ \E step \in Steps : advance_media(step)

\* the slots of the sizing widgets and of the window
SizeSlot ==
    \/ \E dir \in SizeDirs : \E sel \in Selections(dir) : choose_media(dir, sel)
    \/ \E inches \in Sizes : size_changed(inches)
    \/ set_dimensions_visibility
    \/ clear_media
    \/ closeEvent

Stop == stop_close \/ stop_join

Player == play_start \/ play_check \/ play_show \/ play_join

Producer ==
    \/ process_check
    \/ process_bind
    \/ process_len
    \/ process_get
    \/ process_put
    \/ process_put_timeout

Next == Slot \/ Stop \/ Player \/ Producer

\* navigation through a directory of files that open, under autosize
Spec == Init /\ [][Next]_vars

\* Every thread that can take a step eventually takes one; the user is under
\* no obligation to trigger a slot.
FairSpec ==
    /\ Spec
    /\ WF_vars(Stop)
    /\ WF_vars(Player)
    /\ WF_vars(Producer)

NextLoad == LoadSlot \/ Stop \/ Player \/ Producer

\* selecting files that fail to load, or that the filter leaves out
SpecLoad == Init /\ [][NextLoad]_vars

\* hologrify on its own: a call for every display and sizing of HoloInputs
InitCompose ==
    /\ InitSession
    /\ holo \in { [done |-> FALSE, in |-> in, out |-> NoLayout] : in \in HoloInputs }

NextCompose == \E top \in TopSizes : hologrify(top)

SpecCompose == InitCompose /\ [][NextCompose]_vars

NextSize == SizeSlot \/ Stop \/ Player \/ Producer

\* resizing and closing, with one still and one video to show
SpecSize == Init /\ [][NextSize]_vars

(***************************************************************************)
(* Properties.                                                             *)
(***************************************************************************)
inStop == main_pc \in {"stop_close", "stop_join"}

\* C1: for every interleaving of stop() with the running producer and
\* consumer, no pipeline task reads the length of, decodes a frame from, or
\* reads the frame rate of a reader on which close() has been called.
C1_NoAccessAfterClose ==
    [][ /\ process_get => p_h.h \notin closed
        /\ (process_len /\ media.type = "Video") => media.h \notin closed
        /\ (play_start /\ media.type = "Video") => media.h \notin closed ]_vars

\* C1: the producer holds the bound get_data of a closed reader and is about
\* to call it.
C1_ProducerHoldsClosedReader ==
    p_pc = "p_get" /\ p_h.h \in closed

\* C2: stop() calls close() on the reader only after the producer thread
\* and the player thread of the running pipeline have both ended.
C2_CloseAfterBothExit ==
    [][ stop_close => (~consAlive /\ ~prodAlive) ]_vars

\* C3: under fair scheduling of the threads every call of stop() returns:
\* the GUI thread, once inside stop(), eventually leaves it.
C3_StopReturns ==
    inStop ~> ~inStop

\* C3: stop() waits in join() while the producer has ended and the player
\* thread waits in frame_buffer.get() on an empty buffer.
C3_ConsumerBlockedInGet ==
    main_pc = "stop_join" /\ c_pc = "c_get" /\ queue = << >> /\ ~prodAlive

\* C4: while the active media is a still image no producer or consumer task
\* is running, and the display shows no video frame: a frame is never
\* published over the still.
C4_StillOnlyWithoutPipeline ==
    media.type = "Image" =>
        (~consAlive /\ ~prodAlive /\ display.kind # "frame")

\* C4: the active media is a still image and the display shows a video frame
\* that the consumer published after the still.
C4_FrameOverStill ==
    media.type = "Image" /\ main_pc = "idle" /\ display.kind = "frame"

\* C5: while a video whose reported length L is its real length plays and
\* no stop is requested, the producer drops no pair on a full buffer, and
\* the frame published next has the index after the one published last,
\* modulo L, starting at 0.
C5_NoFrameSkipped ==
    [][ /\ process_put_timeout => media.type # "Video"
        /\ (/\ play_show
            /\ media.type = "Video"
            /\ Head(queue).file = media.file
            /\ ReportedLen(media.file) = RealLen(media.file)
            /\ (lastShown = -1
                \/ (display.kind = "frame" /\ display.file = media.file)))
           => Head(queue).idx = (lastShown + 1) % ReportedLen(media.file) ]_vars

\* C6: of every fps consecutive pairs the consumer publishes exactly one
\* carries a preview: a pair with a preview follows the previous such pair
\* after exactly fps - 1 pairs without (the first one of a playback after at
\* most fps - 1), and fps pairs without a preview never follow one another.
C6_PreviewOncePerFps ==
    [][ play_show =>
          LET frame_tuple == Head(queue)
              fps == Fps(frame_tuple.file)
          IN  IF frame_tuple.pv
                THEN IF previewed THEN sincePreview = fps - 1
                                  ELSE sincePreview <= fps - 1
                ELSE sincePreview < fps - 1 ]_vars

\* a slot fails to load and leaves the session as it found it
LoadFailedCleanly ==
    /\ lastError' = "IOError"
    /\ main_pc' = "idle"
    /\ media' = media
    /\ current_file_index' = current_file_index
    /\ c_pc' = c_pc

\* C7: when the file that choose_media or advance_media selects cannot be
\* opened, the slot ends with the load error and the active media, the
\* playback state and the current file index are what they were before.
C7_FailedLoadKeepsState ==
    [][ /\ \A dir \in LoadDirs : \A sel \in Selections(dir) :
              (choose_media(dir, sel) /\ sel # -1 /\ ~Openable(FileAt(dir, sel)))
                  => LoadFailedCleanly
        /\ \A step \in Steps :
              (/\ advance_media(step)
               /\ Len(files) > 0
               /\ ~Openable(FileAt(files, (current_file_index + step) % Len(files))))
                  => LoadFailedCleanly ]_vars

\* r is the remainder of a by n: the one number of 0..n-1 that differs from
\* a by a multiple of n
IsRemainder(r, a, n) ==
    /\ r \in 0 .. (n - 1)
    /\ \E q \in -(MaxStep + 1) .. (MaxStep + 1) : a = q * n + r

\* C8: with a file list of length n > 0 and the current index k in 0..n-1,
\* advance_media(step) sets the current index to the remainder of k + step
\* by n, a value of 0..n-1, for positive and for negative steps.
C8_AdvanceWraps ==
    [][ (/\ advanced' # 0
         /\ Len(files) > 0
         /\ current_file_index \in 0 .. (Len(files) - 1))
        => IsRemainder(current_file_index', current_file_index + advanced',
                       Len(files)) ]_vars

\* C8: in a list of five files a step of -1 has just wrapped the index
\* around to 4, the last position.
C8_WrappedBackward ==
    advanced = -1 /\ Len(files) = 5 /\ current_file_index = 4

\* C9: advance_media on an empty file list does nothing: it ends without an
\* error and the current index, the active media and the playback state are
\* unchanged.
C9_AdvanceOnEmptyIsNoOp ==
    [][ (advanced' # 0 /\ Len(files) = 0)
        => /\ lastError' = "none"
           /\ current_file_index' = current_file_index
           /\ media' = media
           /\ c_pc' = c_pc ]_vars

\* C9: advance_media has just ended with a ZeroDivisionError.
C9_DivisionByZero ==
    advanced # 0 /\ lastError = "ZeroDivisionError"

\* C10: after clear_media has returned and until media is selected again
\* (the navigation widgets stay disabled in between), nothing is published:
\* the display is blank and the preview stack shows the default picture.
C10_ClearedStaysBlank ==
    (main_pc = "idle" /\ ~nav_enabled)
        => (display = Blank /\ preview_index = 0)

\* C10: cleared, and a still is on the display while a still is the media
\* the session holds.
C10_StillAfterClear ==
    /\ main_pc = "idle"
    /\ ~nav_enabled
    /\ media.type = "Image"
    /\ display.kind = "image"

\* C11: whenever a video is the active media and its start-up is over (the
\* slot that selected it has returned and a started player thread has run
\* play up to the start of the producer), one player thread and one producer
\* thread are alive: no consumer is without a live producer, and no video
\* is without its two threads.
C11_OneProducerOneConsumer ==
    (media.type = "Video" /\ main_pc = "idle" /\ c_pc # "c_start")
        => (c_pc # "dead" /\ p_pc # "dead")

\* C11: a video is the active media and the player thread waits in
\* frame_buffer.get() while no producer thread is alive.
C11_ConsumerWithoutProducer ==
    /\ media.type = "Video"
    /\ main_pc = "idle"
    /\ c_pc = "c_get"
    /\ p_pc = "dead"

\* C12: a video selected while a video is the active media is opened only
\* through stop(): the active media never goes from one reader to another
\* in one step, and when the join of that stop() returns and get_reader is
\* called, the old reader is closed and neither the player thread nor the
\* producer thread of the old pipeline is alive, so that no thread of the
\* old pipeline is left to read the new reader.
C12_NewVideoAfterOldPipeline ==
    [][ /\ (media.type = "Video" /\ media' # media) => media'.type # "Video"
        /\ (main_pc = "stop_join" /\ main_cont = "set_media" /\ main_pc' = "idle")
              => (c_pc = "dead" /\ p_pc = "dead" /\ video \in closed) ]_vars

\* C12: set_media has called stop() for a playing video, the old reader is
\* closed, both threads have ended and the join is about to return.
C12_StopDoneBeforeOpen ==
    /\ main_pc = "stop_join"
    /\ main_cont = "set_media"
    /\ c_pc = "dead"
    /\ p_pc = "dead"
    /\ video \in closed
    /\ display.kind = "frame"

\* a resize: a new manual diagonal, or the autosize box toggled
ResizeStep ==
    \/ \E inches \in Sizes : size_changed(inches)
    \/ set_dimensions_visibility

\* C13: a resize while a video plays (a video is the active media and the
\* player thread is alive) leaves the pipeline as it is: no thread is
\* started, and the active media, the buffer with the pairs queued in their
\* old layout, the producer's counter i, the pair it holds and both surfaces
\* are unchanged; the frame the producer composes next is composed with the
\* sizing parameters of that moment.
C13_ResizeLeavesPipeline ==
    [][ /\ (ResizeStep /\ media.type = "Video" /\ c_pc # "dead")
              => UNCHANGED << media, c_pc, c_fps, queue, p_pc, p_i, p_n, p_h,
                              p_idx, p_tuple, display, preview >>
        /\ (process_get /\ p_pc' = "p_put")
              => p_tuple'.sz = SizingOf(size_checked, output_screen_size) ]_vars

\* C13: a video plays, a pair composed under autosize is queued, and after
\* a resize to a manual diagonal the producer has composed the next frame
\* with the new diagonal.
C13_NextFrameResized ==
    /\ media.type = "Video"
    /\ main_pc = "idle"
    /\ c_pc = "c_get"
    /\ Len(queue) = 1
    /\ Head(queue).sz = SizingOf(TRUE, 0)
    /\ Head(queue).idx = 0
    /\ p_pc = "p_put"
    /\ p_tuple.idx = 1
    /\ p_tuple.sz = SizingOf(FALSE, 46)

\* C14: when get_data fails on an open reader (the frame index is past the
\* frames that can be decoded), the producer puts nothing into the buffer,
\* sets i to 0 and goes back to its loop test, alive; nothing is published
\* and no slot sees an error.  Whenever the producer is about to decode with
\* i = 0, the frame it asks for is frame 0.
C14_DecodeFailureRestarts ==
    /\ [][ (process_get /\ p_h.h \notin closed /\ p_idx >= RealLen(p_h.file))
              => /\ p_i' = 0
                 /\ p_pc' = "p_check"
                 /\ UNCHANGED << queue, c_pc, media, display, preview,
                                 lastError, main_pc >> ]_vars
    /\ [](p_pc = "p_get" /\ p_i = 0 => p_idx = 0)

\* C14: the producer has decoded the three frames of vidB.avi, has failed
\* on the fourth one its length reports, and is back at its loop test with
\* i = 0.
C14_AfterDecodeFailure ==
    /\ p_pc = "p_check"
    /\ p_i = 0
    /\ p_n = 3
    /\ p_idx = 3
    /\ p_h.file = "vidB.avi"
    /\ p_h.h \notin closed
    /\ media = p_h

\* C15: within one playback the consumer publishes the pairs in the order
\* of the puts that succeeded, none twice and none left out: the pair it
\* publishes as its k-th is the pair of the k-th put, and the buffer holds,
\* in their order, exactly the pairs put and not yet published.
C15_PublishedInPushOrder ==
    /\ [][ play_show => Head(queue).seq = shown + 1 ]_vars
    /\ [](/\ Len(queue) = pushed - shown
          /\ \A k \in 1 .. Len(queue) : queue[k].seq = shown + k)

\* C15: two pairs have been published and two more wait in the buffer.
C15_TwoShownTwoQueued ==
    shown = 2 /\ pushed = 4 /\ Len(queue) = 2 /\ lastShown = 1

\* C16: a playback has a buffer of its own, gone with it: once a video is
\* the active media, no pair composed from another video is published, and
\* the frame rate the running player thread paces and previews with is the
\* frame rate of the active video.
C16_QueuePerPlayback ==
    /\ [][ (play_show /\ media.type = "Video")
              => Head(queue).file = media.file ]_vars
    /\ []((media.type = "Video" /\ c_pc \in {"c_check", "c_get"})
              => c_fps = Fps(media.file))

\* C16: vidB.avi is the active media and the display shows a frame of
\* vidA.mp4 that the consumer published after vidB.avi was selected.
C16_FrameOfOtherVideo ==
    /\ media.type = "Video"
    /\ media.file = "vidB.avi"
    /\ main_pc = "idle"
    /\ display.kind = "frame"
    /\ display.file = "vidA.mp4"
    /\ shown > 0
    /\ c_fps = Fps("vidA.mp4")

(***************************************************************************)
(* Properties of the layout, under SpecCompose.                            *)
(***************************************************************************)
\* C17: for every display height H and every size of the scaled copy, the
\* four images are placed symmetrically about (H/2 + 300, H/2): top_y +
\* top.height + bottom_y = H and left_x + right.width + right_x = H + 600
\* exactly, top and bottom share an x that centers them in a width of
\* H + 600, left and right share a y that centers them in H, each to
\* within the one pixel int() truncates.
C17_QuadrantsSymmetric ==
    holo.done =>
        LET o == holo.out
            H == holo.in.H
        IN  /\ o.top_y + o.top.height + o.bottom_y = H
            /\ o.left_x + o.right.width + o.right_x = H + 600
            /\ Abs(2 * o.top_x + o.top.width - (H + 600)) <= 1
            /\ o.bottom_x = o.top_x
            /\ Abs(2 * o.left_y + o.left.height - H) <= 1
            /\ o.right_y = o.left_y
            /\ o.left = rotate90(o.top)
            /\ o.right = o.left

\* C17: a layout has been computed for a copy that is not square, on a
\* display where both centerings truncate and top_y is negative.
C17_TruncatedLayout ==
    /\ holo.done
    /\ holo.out.top.width # holo.out.top.height
    /\ (holo.in.H + 600 - holo.out.top.width) % 2 = 1
    /\ (holo.in.H - holo.out.left.height) % 2 = 1
    /\ holo.out.top_y < 0

\* C18: in both sizing modes media_length_px is positive whenever the
\* screen is more than center_length_mm high, and for a screen that is not,
\* the length is clamped to nothing rather than derived from the height
\* (hologrify has no path that rejects its input).
C18_LengthPositiveOrClamped ==
    holo.done =>
        LET h == screen_height_mm(holo.in)
        IN  IF h.num > center_length_mm * h.den
              THEN holo.out.media_length_px > 0
              ELSE holo.out.media_length_px = 0

\* C18: manual sizing of a screen 76.2 mm high, and a layout computed with
\* a positive length.
C18_LengthFromLowScreen ==
    /\ holo.done
    /\ ~holo.in.auto
    /\ screen_height_mm(holo.in).num < center_length_mm * screen_height_mm(holo.in).den
    /\ holo.out.media_length_px > 0

(***************************************************************************)
(* Properties of the whole session, under FairSpec.                        *)
(***************************************************************************)
\* C19: every reader a selection opened is closed once it is no longer the
\* active media: whenever a video stops being self.media, stop() is holding
\* its reader and is about to close it, and stop() goes on to close it.
C19_EveryReaderClosed ==
    /\ [][ (media.type = "Video" /\ media' # media)
              => (main_pc' = "stop_close" /\ video' = media.h) ]_vars
    /\ (main_pc = "stop_close" ~> video \in closed)

\* C19: vidB.avi is the active media, no stop() is under way, and the
\* producer thread still decodes from the reader of vidA.mp4, on which
\* close() was never called.
C19_ReaderLeftOpen ==
    /\ media.type = "Video"
    /\ media.file = "vidB.avi"
    /\ main_pc = "idle"
    /\ p_pc = "p_get"
    /\ p_h.file = "vidA.mp4"
    /\ p_h.h # media.h
    /\ p_h.h \notin closed

\* the video file is the active media and no slot is running
Watching(file) == media.type = "Video" /\ media.file = file /\ main_pc = "idle"

\* C20: under fair scheduling of the threads, a video that is selected and
\* stays the active media has one of its frames published to the display,
\* whatever was selected before (the producer of the model stops after
\* MaxFrames frames, which is no obligation of the program).
C20_SelectedVideoShown ==
    \A file \in {"vidA.mp4", "vidB.avi"} :
        Watching(file) ~> \/ display.kind = "frame" /\ display.file = file
                          \/ ~Watching(file)
                          \/ p_n = MaxFrames

\* C20: vidB.avi is the active media and the display shows the still that
\* was selected before it, while the player thread that was started for an
\* earlier video waits in frame_buffer.get() and its producer has ended.
C20_PlayerOfEarlierVideoWaits ==
    /\ Watching("vidB.avi")
    /\ display = StillOf("img.png", Sizing)
    /\ c_pc = "c_get"
    /\ c_fps = Fps("vidA.mp4")
    /\ queue = << >>
    /\ p_pc = "dead"
====
